---- MODULE Spec2Model ----
(***************************************************************************)
(* A model of app/watermark_removal.py: process_video and the helpers it   *)
(* calls (_load_template, _detect_watermark, _build_inpaint_mask).         *)
(*                                                                         *)
(* The OpenCV calls are the environment.  What the code can observe of     *)
(* them is modelled, nothing more:                                         *)
(*   - cv2.matchTemplate + cv2.minMaxLoc give the peak of the correlation  *)
(*     surface, a score max_val and its alignment max_loc.  When the       *)
(*     template fits inside the frame the alignment is a place of the      *)
(*     template in the frame.  When the frame is smaller than the template *)
(*     in one direction, OpenCV asserts that it is no larger in the other  *)
(*     (else cv2.error) and matches with the two arguments swapped: the    *)
(*     alignment is then a place of the frame in the template;             *)
(*   - cv2.VideoCapture / cv2.VideoWriter are handles that open or fail to *)
(*     open, and the size of the file the writer leaves behind is the      *)
(*     encoder's business: release() leaves it missing, empty or with      *)
(*     data, the three cases line 126 tells apart;                         *)
(*   - cv2.dilate with a 5x5 kernel of ones takes the maximum over the     *)
(*     5x5 neighbourhood of each pixel, pixels outside the image not       *)
(*     counting.                                                           *)
(* Correlation scores are integers (a fixed-point scale of [-1, 1]).       *)
(***************************************************************************)
EXTENDS Integers, Sequences, FiniteSets, TLC

\* ---- bounds of the model ----
MaxFrames == 3
MaxWidth == 3
MaxHeight == 1
MaxTemplateW == 2
MaxTemplateH == 2
MaxScore == 2
MaxThreshold == 1
\* frame and template sizes for the checks of _build_inpaint_mask alone
MaxMaskW == 5
MaxMaskH == 4

\* ---- program constants ----
\* kernel = np.ones((5, 5), np.uint8)
KernelSize == 5

\* Python's None: an Optional[X] is the empty set or a set of one X.
None == {}
Some(x) == {x}
Get(o) == CHOOSE x \in o : TRUE

\* The exceptions process_video lets reach its caller.
NoError == "no error"
InputMissing == "Input video does not exist"
TemplateNotFound == "Watermark template not found"
TemplateUnreadable == "Unable to read watermark template image"
CaptureNotOpened == "Could not open input video"
WriterNotOpened == "Could not initialise video writer"
WatermarkNotFound == "Unable to detect the Sora 2 watermark"
ReconstructionFailure == "Failed to generate cleaned video"
Cv2Error == "cv2.error"
AttributeError == "AttributeError"

WatermarkRemovalErrors ==
    {InputMissing, TemplateNotFound, TemplateUnreadable, CaptureNotOpened,
     WriterNotOpened, WatermarkNotFound, ReconstructionFailure}

VARIABLES
    pc,           \* position in process_video
    raised,       \* the exception that left process_video, or NoError
    returned,     \* TRUE once process_video has returned output_path
    capture,      \* the cv2.VideoCapture handle: "unopened", "open", "released"
    writer,       \* the cv2.VideoWriter handle: "unopened", "open", "released"
    output_file,  \* the file at output_path: "absent", "empty", "data"
    width,        \* CAP_PROP_FRAME_WIDTH of the input
    height,       \* CAP_PROP_FRAME_HEIGHT of the input
    template,     \* template.shape of the template asset: [h |-> , w |-> ]
    threshold,    \* the threshold parameter
    nframes,      \* the number of frames the input source holds
    nread,        \* the number of frames capture.read() has supplied
    detection,    \* the held detection (the tracked state), or None
    updated,      \* the detector's result for the current later frame, or None
    mask,         \* the mask built for the current frame
    written       \* the frames handed to writer.write, in order

vars == <<pc, raised, returned, capture, writer, output_file, width, height,
          template, threshold, nframes, nread, detection, updated, mask, written>>

\* What lies outside one call of process_video.
VARIABLES
    minMaxLoc,    \* the (max_val, max_loc) _detect_watermark works on, or None
    upc,          \* position in process_upload
    filename,     \* file.filename of the request, a sequence of name parts
    upload_file,  \* the file at upload_path: "absent" or "written"
    response,     \* the response of process_upload: "none", 200, 400, 422, 500
    jobs,         \* concurrent jobs: job -> its own state
    files         \* concurrent jobs: the files on disk, path -> state

outer == <<minMaxLoc, upc, filename, upload_file, response, jobs, files>>

allvars == <<vars, outer>>

\* process_video called on its own: no request, no other job.
Alone ==
    /\ minMaxLoc = None
    /\ upc = "none"
    /\ filename = <<>>
    /\ upload_file = "absent"
    /\ response = "none"
    /\ jobs = <<>>
    /\ files = <<>>

Scores == (-1)..MaxScore
Thresholds == 0..MaxThreshold

Max(S) == CHOOSE m \in S : \A n \in S : m >= n

\* ---- WatermarkDetection ----
WatermarkDetection(top_left, size, confidence) ==
    [top_left |-> top_left, size |-> size, confidence |-> confidence]

\* bbox: (x, y, w, h)
bbox(d) == <<d.top_left[1], d.top_left[2], d.size[1], d.size[2]>>

\* detection.confidence of a detection that is not None
confidence(o) == Get(o).confidence

\* ---- cv2.matchTemplate / cv2.minMaxLoc ----
\* matchTemplate's needswap: the frame is smaller than the template somewhere.
needswap(tmpl, w, h) == h < tmpl.h \/ w < tmpl.w

\* matchTemplate raises cv2.error: the frame is smaller than the template in
\* one direction and larger in the other.
matchTemplateRaises(tmpl, w, h) ==
    needswap(tmpl, w, h) /\ ~(h <= tmpl.h /\ w <= tmpl.w)

\* The peaks (max_val, max_loc) the correlation surface can have: the result
\* has (|w - tw| + 1) x (|h - th| + 1) alignments.
matchTemplate(tmpl, w, h) ==
    LET dw == IF needswap(tmpl, w, h) THEN tmpl.w - w ELSE w - tmpl.w
        dh == IF needswap(tmpl, w, h) THEN tmpl.h - h ELSE h - tmpl.h
    IN  { [max_val |-> v, max_loc |-> <<x, y>>] :
            v \in Scores, x \in 0..dw, y \in 0..dh }

\* ---- _detect_watermark ----
\* (faulty variant: a score equal to the threshold is rejected)
_detect_watermark_strict(peak, tmpl, thr) ==
    IF peak.max_val <= thr
    THEN None
    ELSE Some(WatermarkDetection(peak.max_loc, <<tmpl.w, tmpl.h>>, peak.max_val))
_detect_watermark(peak, tmpl, thr) ==
    IF peak.max_val < thr
    THEN None
    ELSE Some(WatermarkDetection(peak.max_loc, <<tmpl.w, tmpl.h>>, peak.max_val))

\* ---- _build_inpaint_mask ----
\* The pixels of a frame_shape = (rows, cols) array, as <<row, col>>.
Pixels(frame_shape) == (0..(frame_shape[1] - 1)) \X (0..(frame_shape[2] - 1))

\* mask[y : y + h, x : x + w] = 255 : numpy clips the slice to the array.
FillBox(m, x, y, w, h) ==
    [p \in DOMAIN m |->
        IF p[1] \in y..(y + h - 1) /\ p[2] \in x..(x + w - 1) THEN 255 ELSE m[p]]

\* cv2.dilate(mask, np.ones((ksize, ksize)), iterations=1): the anchor is the
\* kernel's centre, the border does not contribute.
\* (faulty variant: the box is not expanded)
dilate_nodilation(m, ksize) == m
dilate(m, ksize) ==
    LET r == ksize \div 2
    IN  [p \in DOMAIN m |->
            Max({ m[q] : q \in { q \in DOMAIN m :
                                   /\ q[1] \in (p[1] - r)..(p[1] + r)
                                   /\ q[2] \in (p[2] - r)..(p[2] + r) } })]

_build_inpaint_mask(frame_shape, d) ==
    LET zeros == [p \in Pixels(frame_shape) |-> 0]
        b == bbox(Get(d))
    IN  dilate(FillBox(zeros, b[1], b[2], b[3], b[4]), KernelSize)

\* ---- process_video ----
TypeOK ==
    /\ pc \in {"start", "load_template", "open_capture", "open_writer", "read",
               "detect", "emit", "release", "check", "done"}
    /\ raised \in WatermarkRemovalErrors \cup {NoError, Cv2Error, AttributeError}
    /\ returned \in BOOLEAN
    /\ capture \in {"unopened", "open", "released"}
    /\ writer \in {"unopened", "open", "released"}
    /\ output_file \in {"absent", "empty", "data"}
    /\ width \in 1..MaxWidth /\ height \in 1..MaxHeight
    /\ template \in [h : 1..MaxTemplateH, w : 1..MaxTemplateW]
    /\ threshold \in Thresholds
    /\ nframes \in 0..MaxFrames /\ nread \in 0..nframes
    /\ written \in Seq(1..MaxFrames)

Init ==
    /\ pc = "start"
    /\ raised = NoError
    /\ returned = FALSE
    /\ capture = "unopened"
    /\ writer = "unopened"
    /\ output_file = "absent"
    /\ width \in 1..MaxWidth
    /\ height \in 1..MaxHeight
    /\ template \in [h : 1..MaxTemplateH, w : 1..MaxTemplateW]
    /\ threshold \in Thresholds
    /\ nframes \in 0..MaxFrames
    /\ nread = 0
    /\ detection = None
    /\ updated = None
    /\ mask = [p \in {} |-> 0]
    /\ written = <<>>
    /\ Alone

\* raise exc: the exception leaves process_video.
Raise(exc) ==
    /\ raised' = exc
    /\ pc' = "done"

\* if not input_path.exists(): raise
CheckInput ==
    /\ pc = "start"
    /\ \E exists \in (IF upc = "none" THEN BOOLEAN ELSE {upload_file = "written"}) :
          IF exists THEN pc' = "load_template" /\ raised' = raised
                    ELSE Raise(InputMissing)
    /\ UNCHANGED <<returned, capture, writer, output_file, width, height, template,
                   threshold, nframes, nread, detection, updated, mask, written>>
    /\ UNCHANGED outer

\* template = _load_template(template_path or DEFAULT_TEMPLATE)
_load_template ==
    /\ pc = "load_template"
    /\ \E outcome \in {"missing", "unreadable", "loaded"} :
          CASE outcome = "missing" -> Raise(TemplateNotFound)
            [] outcome = "unreadable" -> Raise(TemplateUnreadable)
            [] outcome = "loaded" -> pc' = "open_capture" /\ raised' = raised
    /\ UNCHANGED <<returned, capture, writer, output_file, width, height, template,
                   threshold, nframes, nread, detection, updated, mask, written>>
    /\ UNCHANGED outer

\* capture = cv2.VideoCapture(...); if not capture.isOpened(): raise
OpenCapture ==
    /\ pc = "open_capture"
    /\ \E isOpened \in BOOLEAN :
          IF isOpened
          THEN capture' = "open" /\ pc' = "open_writer" /\ raised' = raised
          ELSE capture' = capture /\ Raise(CaptureNotOpened)
    /\ UNCHANGED <<returned, writer, output_file, width, height, template,
                   threshold, nframes, nread, detection, updated, mask, written>>
    /\ UNCHANGED outer

\* writer = cv2.VideoWriter(output_path, ...); if not writer.isOpened():
\* capture.release(); raise.  A writer that opens has created the file; one that
\* does not open is a destination that could not be created.
OpenWriter ==
    /\ pc = "open_writer"
    /\ \E isOpened \in BOOLEAN :
          IF isOpened
          THEN /\ writer' = "open"
               /\ output_file' = "empty"
               /\ capture' = capture
               /\ pc' = "read"
               /\ raised' = raised
          ELSE /\ writer' = writer
               /\ output_file' = output_file
               /\ capture' = "released"
               /\ Raise(WriterNotOpened)
    /\ detection' = None
    /\ UNCHANGED <<returned, width, height, template, threshold, nframes, nread,
                   updated, mask, written>>
    /\ UNCHANGED outer

\* success, frame = capture.read(); if not success: break; gray = cvtColor(frame)
ReadFrame ==
    /\ pc = "read"
    /\ IF nread < nframes
       THEN nread' = nread + 1 /\ pc' = "detect"
       ELSE nread' = nread /\ pc' = "release"
    /\ UNCHANGED <<raised, returned, capture, writer, output_file, width, height,
                   template, threshold, nframes, detection, updated, mask, written>>
    /\ UNCHANGED outer

\* The first-frame abort: writer.release(); capture.release();
\* output_path.unlink(missing_ok=True); raise WatermarkRemovalError
\* (faulty variant: the output file is left on disk)
FirstFrameAbort_nounlink ==
    /\ writer' = "released"
    /\ capture' = "released"
    /\ output_file' \in {"empty", "data"}
    /\ Raise(WatermarkNotFound)
FirstFrameAbort ==
    /\ writer' = "released"
    /\ capture' = "released"
    /\ output_file' = "absent"
    /\ Raise(WatermarkNotFound)

\* if detection is None: detection = _detect_watermark(...); if detection is None: abort
DetectFirst ==
    /\ pc = "detect"
    /\ detection = None
    /\ IF ~matchTemplateRaises(template, width, height)
       THEN \E peak \in matchTemplate(template, width, height) :
               LET d == _detect_watermark(peak, template, threshold)
               IN  /\ detection' = d
                   /\ IF d = None
                      THEN FirstFrameAbort
                      ELSE /\ pc' = "emit"
                           /\ UNCHANGED <<raised, capture, writer, output_file>>
       ELSE /\ Raise(Cv2Error)
            /\ UNCHANGED <<detection, capture, writer, output_file>>
    /\ UNCHANGED <<returned, width, height, template, threshold, nframes, nread,
                   updated, mask, written>>
    /\ UNCHANGED outer

\* if updated is not None and updated.confidence >= detection.confidence
\* (faulty variants: any candidate is adopted; an equal one is not)
Adopts_always(new, cur) == new # None
Adopts_strict(new, cur) == new # None /\ confidence(new) > confidence(cur)
Adopts(new, cur) == new # None /\ confidence(new) >= confidence(cur)

\* else: updated = _detect_watermark(...); if <adopts>: detection = updated
\* (faulty variant: a later frame without a detection aborts the job)
DetectLater_abort ==
    /\ pc = "detect"
    /\ detection # None
    /\ \E peak \in matchTemplate(template, width, height) :
          LET u == _detect_watermark(peak, template, threshold)
          IN  /\ updated' = u
              /\ detection' = IF Adopts(u, detection) THEN u ELSE detection
              /\ IF u = None
                 THEN FirstFrameAbort
                 ELSE /\ pc' = "emit"
                      /\ UNCHANGED <<raised, capture, writer, output_file>>
    /\ UNCHANGED <<returned, width, height, template, threshold, nframes, nread,
                   mask, written>>
    /\ UNCHANGED outer
DetectLater ==
    /\ pc = "detect"
    /\ detection # None
    /\ IF ~matchTemplateRaises(template, width, height)
       THEN \E peak \in matchTemplate(template, width, height) :
               LET u == _detect_watermark(peak, template, threshold)
               IN  /\ updated' = u
                   /\ detection' = IF Adopts(u, detection) THEN u ELSE detection
                   /\ pc' = "emit"
                   /\ raised' = raised
       ELSE /\ Raise(Cv2Error)
            /\ UNCHANGED <<detection, updated>>
    /\ UNCHANGED <<returned, capture, writer, output_file, width, height,
                   template, threshold, nframes, nread, mask, written>>
    /\ UNCHANGED outer

\* mask = _build_inpaint_mask(gray.shape, detection); cleaned = cv2.inpaint(...);
\* writer.write(cleaned)
\* (faulty variant: frames without a detection of their own are not written)
Emit_dropmisses ==
    /\ pc = "emit"
    /\ mask' = _build_inpaint_mask(<<height, width>>, detection)
    /\ written' = IF nread > 1 /\ updated = None THEN written ELSE Append(written, nread)
    /\ pc' = "read"
    /\ UNCHANGED <<raised, returned, capture, writer, output_file, width, height,
                   template, threshold, nframes, nread, detection, updated>>
    /\ UNCHANGED outer
\* (faulty variant: the same frame is processed again, nothing is written)
Emit_again ==
    /\ pc = "emit"
    /\ mask' = _build_inpaint_mask(<<height, width>>, detection)
    /\ written' = written
    /\ pc' = "detect"
    /\ UNCHANGED <<raised, returned, capture, writer, output_file, width, height,
                   template, threshold, nframes, nread, detection, updated>>
    /\ UNCHANGED outer
Emit ==
    /\ pc = "emit"
    /\ IF detection = None
       THEN Raise(AttributeError) /\ UNCHANGED <<mask, written>>
       ELSE /\ mask' = _build_inpaint_mask(<<height, width>>, detection)
            /\ written' = Append(written, nread)
            /\ pc' = "read"
            /\ raised' = raised
    /\ UNCHANGED <<returned, capture, writer, output_file, width, height,
                   template, threshold, nframes, nread, detection, updated>>
    /\ UNCHANGED outer

\* capture.release(); writer.release()
Release ==
    /\ pc = "release"
    /\ capture' = "released"
    /\ writer' = "released"
    /\ output_file' \in {"absent", "empty", "data"}
    /\ pc' = "check"
    /\ UNCHANGED <<raised, returned, width, height, template, threshold, nframes,
                   nread, detection, updated, mask, written>>
    /\ UNCHANGED outer

\* if not output_path.exists() or output_path.stat().st_size == 0: raise
\* (faulty variant: an empty file passes)
OutputMissingOrEmpty_existsonly(f) == f = "absent"
OutputMissingOrEmpty(f) == f = "absent" \/ f = "empty"

\* ... raise WatermarkRemovalError("Failed to generate cleaned video");
\* return output_path
CheckOutput ==
    /\ pc = "check"
    /\ IF OutputMissingOrEmpty(output_file)
       THEN Raise(ReconstructionFailure) /\ returned' = returned
       ELSE returned' = TRUE /\ pc' = "done" /\ raised' = raised
    /\ UNCHANGED <<capture, writer, output_file, width, height, template,
                   threshold, nframes, nread, detection, updated, mask, written>>
    /\ UNCHANGED outer

Next ==
    \/ CheckInput
    \/ _load_template
    \/ OpenCapture
    \/ OpenWriter
    \/ ReadFrame
    \/ DetectFirst
    \/ DetectLater
    \/ Emit
    \/ Release
    \/ CheckOutput

Spec == Init /\ [][Next]_vars

\* The job is single-threaded and nothing in it waits: a step that can be taken is taken.
FairSpec == Spec /\ WF_vars(Next)

\* ---- _build_inpaint_mask on its own ----
\* Any frame size, any template the detector accepts for it, any detection
\* _detect_watermark returns for them.
MaskInit ==
    /\ pc = "mask"
    /\ raised = NoError
    /\ returned = FALSE
    /\ capture = "open"
    /\ writer = "open"
    /\ output_file = "empty"
    /\ width \in 1..MaxMaskW
    /\ height \in 1..MaxMaskH
    /\ template \in [h : 1..MaxMaskH, w : 1..MaxMaskW]
    /\ ~matchTemplateRaises(template, width, height)
    /\ threshold \in Thresholds
    /\ nframes = 1
    /\ nread = 1
    /\ detection \in { _detect_watermark(peak, template, threshold) :
                         peak \in matchTemplate(template, width, height) } \ {None}
    /\ updated = None
    /\ mask = [p \in {} |-> 0]
    /\ written = <<>>
    /\ Alone

\* mask = _build_inpaint_mask(gray.shape, detection)
MaskBuild ==
    /\ pc = "mask"
    /\ mask' = _build_inpaint_mask(<<height, width>>, detection)
    /\ pc' = "masked"
    /\ UNCHANGED <<raised, returned, capture, writer, output_file, width, height,
                   template, threshold, nframes, nread, detection, updated, written>>
    /\ UNCHANGED outer

MaskNext == MaskBuild

MaskSpec == MaskInit /\ [][MaskNext]_vars

\* ---------------------------------------------------------------------------
\* Properties of process_video
\* ---------------------------------------------------------------------------

\* C1 - Tracker monotonicity: the confidence of the held detection never
\* decreases from one step of the job to the next (a held detection stays
\* held), and a later frame whose detector result is absent leaves the held
\* detection exactly as it was.
TrackerMonotonicity ==
    [][ /\ (detection # None =>
               detection' # None /\ confidence(detection') >= confidence(detection))
        /\ ((pc = "detect" /\ detection # None /\ updated' = None) =>
               detection' = detection) ]_vars

\* A later frame produced a candidate of lower confidence and the held
\* detection was kept.
LowerCandidateRejected ==
    /\ pc = "emit"
    /\ nread >= 2
    /\ updated # None
    /\ confidence(updated) < confidence(detection)

\* C2 - First-frame requirement: when the detector has answered absent for
\* the first frame, the job has ended with the watermark-not-found error, no
\* frame was written, no detection is held and the output file is gone.
FirstFrameRequirement ==
    (nread >= 1 /\ pc # "detect" /\ detection = None /\ raised # Cv2Error) =>
        /\ pc = "done"
        /\ raised = WatermarkNotFound
        /\ ~returned
        /\ written = <<>>
        /\ output_file = "absent"
        /\ capture = "released" /\ writer = "released"

\* The first frame had no detection and the job was aborted.
FirstFrameAbsentAborted ==
    pc = "done" /\ raised = WatermarkNotFound /\ nread = 1

\* C3 - The watermark-not-found failure comes from the first iteration only:
\* it is raised with exactly one frame read and no detection held, and a later
\* frame whose detection is absent leaves the job running.
NotFoundOnlyOnFirstFrame ==
    /\ (raised = WatermarkNotFound => nread = 1 /\ detection = None)
    /\ (detection # None => raised # WatermarkNotFound)
    /\ ((nread >= 2 /\ pc = "emit" /\ updated = None) => raised = NoError)

\* A later frame had no detection, and it was written like any other.
LaterMissDoesNotAbort ==
    /\ pc = "read"
    /\ nread >= 2
    /\ updated = None
    /\ Len(written) = nread
    /\ raised = NoError

\* C4 - No output file is left behind by a failed job: whenever process_video
\* has ended by raising, the file at output_path does not exist.
FailedJobLeavesNoOutput ==
    (pc = "done" /\ raised # NoError) => output_file = "absent"

\* C5 - Tracker update rule: on a frame after the first, with held detection
\* C and detector result N, the held detection becomes N exactly when N is
\* present with N.confidence >= C.confidence, and is C unchanged otherwise.
TrackerUpdateRule ==
    [][ (pc = "detect" /\ detection # None /\ pc' = "emit") =>
            detection' = IF updated' # None /\ confidence(updated') >= confidence(detection)
                         THEN updated'
                         ELSE detection ]_vars

\* A later frame's detection was adopted as the held detection.
LaterDetectionAdopted ==
    /\ pc = "emit"
    /\ nread >= 2
    /\ updated # None
    /\ detection = updated

\* C6 - The tracked state is absent before the first frame and, once a frame
\* has been written, is never absent again; a frame that has just been written
\* was masked with the held detection, and that mask is not empty (some pixel
\* of it is 255).
TrackedStateHeldAndMasked ==
    /\ (nread = 0 => detection = None)
    /\ (written # <<>> => detection # None)
    /\ ((pc = "read" /\ written # <<>>) =>
            /\ mask = _build_inpaint_mask(<<height, width>>, detection)
            /\ \E p \in DOMAIN mask : mask[p] = 255)

\* C7 - Frame ordering: the frames written are frames 1, 2, ... in this order;
\* while frame n is in the per-frame stages exactly frames 1..n-1 have been
\* written, and the next frame is read only when all frames read so far have
\* been written; a job that returns has written every frame of the source.
FrameOrdering ==
    /\ \A i \in 1..Len(written) : written[i] = i
    /\ Len(written) <= nread /\ nread <= Len(written) + 1
    /\ (pc \in {"detect", "emit"} => Len(written) = nread - 1)
    /\ (pc = "read" => Len(written) = nread)
    /\ (returned => Len(written) = nframes)

\* A job over several frames returned with all of them written.
AllFramesWritten ==
    returned /\ nframes >= 2 /\ Len(written) = nframes

\* C8 - Success postcondition: a path is returned only with the source
\* exhausted, both handles released and the output file present and not
\* empty; after a full pass that leaves the output missing or empty the job
\* ends with the reconstruction-failure error and returns nothing.
SuccessPostcondition ==
    /\ (returned =>
            /\ pc = "done"
            /\ raised = NoError
            /\ nread = nframes
            /\ capture = "released" /\ writer = "released"
            /\ output_file = "data")
    /\ ((/\ pc = "done"
         /\ capture = "released" /\ writer = "released"
         /\ raised # WatermarkNotFound
         /\ output_file # "data") =>
            raised = ReconstructionFailure /\ ~returned)

\* A job returned its output path.
ReturnedOutputPath ==
    returned /\ output_file = "data" /\ nread >= 1

\* C9 - Termination: every job ends, by returning a path or by raising; the
\* frame loop enters its per-frame stages only by reading one more frame, and
\* leaves them only towards the next read or the end of the job.
Termination ==
    /\ <>(pc = "done")
    /\ [](pc = "done" => (returned \/ raised # NoError))
    /\ [][(pc' = "detect" /\ pc # "detect") => (pc = "read" /\ nread' = nread + 1)]_vars
    /\ [][pc = "emit" => pc' \in {"read", "done"}]_vars

\* A job that went through the frame loop several times has ended.
JobEndedAfterLoop ==
    pc = "done" /\ nread >= 2 /\ nread = nframes

\* C10 as stated - Mask containment: the mask has the frame's dimensions and
\* values 0 or 255 only, every pixel of the detection's bounding box is 255,
\* and the 255 pixels are a strict superset of the box.
MaskStrictSuperset ==
    pc = "masked" =>
        LET b == bbox(Get(detection))
            box == (b[2]..(b[2] + b[4] - 1)) \X (b[1]..(b[1] + b[3] - 1))
            fill == { p \in DOMAIN mask : mask[p] = 255 }
        IN  /\ DOMAIN mask = Pixels(<<height, width>>)
            /\ \A p \in DOMAIN mask : mask[p] \in {0, 255}
            /\ box \subseteq fill
            /\ fill # box

\* C10 as amended - the mask has the frame's dimensions and values 0 or 255
\* only, every frame pixel inside the detection's bounding box is 255, and the
\* 255 pixels are a superset of the part of the box inside the frame, strict
\* exactly when that part is neither empty nor the whole frame.
MaskContainment ==
    pc = "masked" =>
        LET b == bbox(Get(detection))
            box == (b[2]..(b[2] + b[4] - 1)) \X (b[1]..(b[1] + b[3] - 1))
            inside == box \cap Pixels(<<height, width>>)
            fill == { p \in DOMAIN mask : mask[p] = 255 }
        IN  /\ DOMAIN mask = Pixels(<<height, width>>)
            /\ \A p \in DOMAIN mask : mask[p] \in {0, 255}
            /\ inside \subseteq fill
            /\ (fill # inside <=> (inside # {} /\ inside # Pixels(<<height, width>>)))

\* A box in the frame's corner, smaller than the frame, was expanded, and the
\* expansion stopped short of the rest of the frame.
MaskCornerBoxExpanded ==
    /\ pc = "masked"
    /\ Get(detection).top_left = <<0, 0>>
    /\ Get(detection).size[1] < width
    /\ mask[<<0, 0>>] = 255
    /\ mask[<<0, Get(detection).size[1]>>] = 255
    /\ \E p \in DOMAIN mask : mask[p] = 0

\* C11 - Template larger than the frame: a job whose detector was run on a
\* frame smaller than the template in width or height has ended with a
\* job-level error (a WatermarkRemovalError), not with a library error and not
\* with a returned path, and has left no output file.
OversizeTemplateFailsGracefully ==
    (pc = "done" /\ nread >= 1 /\ needswap(template, width, height)) =>
        /\ raised \in WatermarkRemovalErrors
        /\ ~returned
        /\ output_file = "absent"

\* C15 - Handle release: whenever process_video has ended after opening the
\* input source, the source has been released, and the sink is not left open.
HandlesReleasedAtEnd ==
    (pc = "done" /\ capture # "unopened") =>
        capture = "released" /\ writer # "open"

\* C16 - No success without a detection: whenever process_video has returned
\* a path, a detection is held and at least one frame was written.
NoSuccessWithoutDetection ==
    returned => (detection # None /\ written # <<>>)

\* ---------------------------------------------------------------------------
\* _detect_watermark on its own, frame after frame, with any threshold
\* ---------------------------------------------------------------------------
DetectInit ==
    /\ pc = "correlate"
    /\ raised = NoError
    /\ returned = FALSE
    /\ capture = "open"
    /\ writer = "open"
    /\ output_file = "empty"
    /\ width \in 1..MaxWidth
    /\ height \in 1..MaxHeight
    /\ template \in [h : 1..MaxTemplateH, w : 1..MaxTemplateW]
    /\ threshold \in Scores
    /\ nframes \in 1..MaxFrames
    /\ nread = 1
    /\ detection = None
    /\ updated = None
    /\ mask = [p \in {} |-> 0]
    /\ written = <<>>
    /\ Alone

\* result = cv2.matchTemplate(...); _, max_val, _, max_loc = cv2.minMaxLoc(result)
Correlate ==
    /\ pc = "correlate"
    /\ IF ~matchTemplateRaises(template, width, height)
       THEN /\ \E peak \in matchTemplate(template, width, height) :
                  minMaxLoc' = Some(peak)
            /\ pc' = "threshold"
            /\ raised' = raised
       ELSE /\ Raise(Cv2Error)
            /\ minMaxLoc' = minMaxLoc
    /\ UNCHANGED <<returned, capture, writer, output_file, width, height,
                   template, threshold, nframes, nread, detection, updated,
                   mask, written>>
    /\ UNCHANGED <<upc, filename, upload_file, response, jobs, files>>

\* if max_val < threshold: return None / return WatermarkDetection(...)
Detect ==
    /\ pc = "threshold"
    /\ updated' = _detect_watermark(Get(minMaxLoc), template, threshold)
    /\ pc' = "track"
    /\ UNCHANGED <<raised, returned, capture, writer, output_file, width, height,
                   template, threshold, nframes, nread, detection, mask, written>>
    /\ UNCHANGED outer

\* What process_video does with the result: the first one is held or the job
\* stops, a later one is held if it is adopted; then the next frame is read.
Track ==
    /\ pc = "track"
    /\ detection' = IF detection = None \/ Adopts(updated, detection)
                    THEN updated ELSE detection
    /\ IF detection = None /\ updated = None
       THEN Raise(WatermarkNotFound) /\ nread' = nread
       ELSE /\ raised' = raised
            /\ IF nread < nframes
               THEN pc' = "correlate" /\ nread' = nread + 1
               ELSE pc' = "done" /\ nread' = nread
    /\ UNCHANGED <<returned, capture, writer, output_file, width, height,
                   template, threshold, nframes, updated, mask, written>>
    /\ UNCHANGED outer

DetectNext == Correlate \/ Detect \/ Track

DetectSpec == DetectInit /\ [][DetectNext]_allvars

\* C13 - Detector threshold semantics: once _detect_watermark has answered for
\* a peak, the answer is absent exactly when the peak's score is strictly below
\* the threshold, and otherwise it is a detection at the peak's position, of the
\* template's size, with the raw score as confidence; and every detection the
\* tracker holds has a confidence of at least the threshold.
DetectorThresholdSemantics ==
    /\ pc = "track" =>
          LET peak == Get(minMaxLoc)
          IN  /\ updated = None <=> peak.max_val < threshold
              /\ updated # None =>
                    /\ Get(updated).top_left = peak.max_loc
                    /\ Get(updated).size = <<template.w, template.h>>
                    /\ Get(updated).confidence = peak.max_val
    /\ detection # None => confidence(detection) >= threshold

\* A negative peak has met a negative threshold and is held by the tracker.
NegativeScoreAtThresholdHeld ==
    /\ pc = "correlate"
    /\ threshold < 0
    /\ detection # None
    /\ confidence(detection) = threshold

\* ---------------------------------------------------------------------------
\* process_upload (POST /process)
\* ---------------------------------------------------------------------------
\* file.filename as its parts: words and dots.
FileNames ==
    { <<>>, <<"clip">>, <<"clip", ".", "mp4">>, <<"clip", ".", "MP4">>,
      <<"clip", ".", "txt">>, <<".", "mp4">>, <<"clip", ".">>,
      <<"clip", ".", "mp4", ".", "txt">>, <<"clip", ".", "txt", ".", "Mov">> }

\* Path(name).suffix: from the last dot on, unless that dot starts or ends the name.
suffix(name) ==
    LET dots == { i \in 1..Len(name) : name[i] = "." }
    IN  IF dots = {} THEN <<>>
        ELSE IF Max(dots) > 1 /\ Max(dots) < Len(name)
             THEN SubSeq(name, Max(dots), Len(name))
             ELSE <<>>

\* str.lower()
lower(s) ==
    [i \in 1..Len(s) |->
        CASE s[i] = "MP4" -> "mp4"
          [] s[i] = "Mov" -> "mov"
          [] OTHER -> s[i]]

\* {".mp4", ".mov", ".mkv", ".avi", ".webm"}
SupportedSuffixes == { <<".", e>> : e \in {"mp4", "mov", "mkv", "avi", "webm"} }

\* A request has arrived; process_video has not been called.  The video's
\* properties are those of the uploaded content.
UploadInit ==
    /\ upc = "filename"
    /\ filename \in FileNames
    /\ upload_file = "absent"
    /\ response = "none"
    /\ minMaxLoc = None
    /\ jobs = <<>>
    /\ files = <<>>
    /\ pc = "not_called"
    /\ raised = NoError
    /\ returned = FALSE
    /\ capture = "unopened"
    /\ writer = "unopened"
    /\ output_file = "absent"
    /\ width \in 1..MaxWidth
    /\ height \in 1..MaxHeight
    /\ template \in [h : 1..MaxTemplateH, w : 1..MaxTemplateW]
    /\ threshold \in Thresholds
    /\ nframes \in 0..MaxFrames
    /\ nread = 0
    /\ detection = None
    /\ updated = None
    /\ mask = [p \in {} |-> 0]
    /\ written = <<>>

\* raise HTTPException(status_code=...)
HTTPException(status_code) ==
    /\ response' = status_code
    /\ upc' = "done"

\* if not file.filename: raise HTTPException(400)
CheckFilename ==
    /\ upc = "filename"
    /\ IF filename = <<>>
       THEN HTTPException("400")
       ELSE upc' = "suffix" /\ response' = response
    /\ UNCHANGED <<vars, minMaxLoc, filename, upload_file, jobs, files>>

\* suffix = Path(file.filename).suffix.lower(); if suffix not in {...}: raise
\* (faulty variant: the upload is stored before the suffix is looked at)
CheckSuffix_afterwrite ==
    /\ upc = "suffix"
    /\ upload_file' = "written"
    /\ IF lower(suffix(filename)) \notin SupportedSuffixes
       THEN HTTPException("400")
       ELSE upc' = "call" /\ response' = response
    /\ UNCHANGED <<vars, minMaxLoc, filename, jobs, files>>
CheckSuffix ==
    /\ upc = "suffix"
    /\ IF lower(suffix(filename)) \notin SupportedSuffixes
       THEN HTTPException("400")
       ELSE upc' = "write" /\ response' = response
    /\ UNCHANGED <<vars, minMaxLoc, filename, upload_file, jobs, files>>

\* upload_path = UPLOAD_DIR / f"{uuid.uuid4()}{suffix}"; copyfileobj(file.file, buffer)
WriteUpload ==
    /\ upc = "write"
    /\ upload_file' = "written"
    /\ upc' = "call"
    /\ UNCHANGED <<vars, minMaxLoc, filename, response, jobs, files>>

\* try: output_path = process_video(upload_path, OUTPUT_DIR)
CallProcessVideo ==
    /\ upc = "call"
    /\ pc = "not_called"
    /\ pc' = "start"
    /\ upc' = "process_video"
    /\ UNCHANGED <<raised, returned, capture, writer, output_file, width, height,
                   template, threshold, nframes, nread, detection, updated,
                   mask, written>>
    /\ UNCHANGED <<minMaxLoc, filename, upload_file, response, jobs, files>>

\* except WatermarkRemovalError: upload_path.unlink(missing_ok=True); raise HTTPException(422)
ExceptWatermarkRemovalError ==
    /\ upc = "process_video"
    /\ pc = "done"
    /\ raised \in WatermarkRemovalErrors
    /\ upload_file' = "absent"
    /\ HTTPException("422")
    /\ UNCHANGED <<vars, minMaxLoc, filename, jobs, files>>

\* Any other exception leaves process_upload: the server answers 500.
Unhandled ==
    /\ upc = "process_video"
    /\ pc = "done"
    /\ raised \notin WatermarkRemovalErrors \cup {NoError}
    /\ response' = "500"
    /\ upc' = "done"
    /\ UNCHANGED <<vars, minMaxLoc, filename, upload_file, jobs, files>>

\* return FileResponse(output_path, ..., background=BackgroundTask(cleanup_files)):
\* the response is sent.
ReturnFileResponse ==
    /\ upc = "process_video"
    /\ pc = "done"
    /\ returned
    /\ response' = "200"
    /\ upc' = "background"
    /\ UNCHANGED <<vars, minMaxLoc, filename, upload_file, jobs, files>>

\* cleanup_files(), run as the response's background task
cleanup_files ==
    /\ upc = "background"
    /\ upload_file' = "absent"
    /\ output_file' = "absent"
    /\ upc' = "done"
    /\ UNCHANGED <<pc, raised, returned, capture, writer, width, height, template,
                   threshold, nframes, nread, detection, updated, mask, written>>
    /\ UNCHANGED <<minMaxLoc, filename, response, jobs, files>>

UploadNext ==
    \/ CheckFilename
    \/ CheckSuffix
    \/ WriteUpload
    \/ CallProcessVideo
    \/ Next
    \/ ExceptWatermarkRemovalError
    \/ Unhandled
    \/ ReturnFileResponse
    \/ cleanup_files

UploadSpec == UploadInit /\ [][UploadNext]_allvars

\* C14 - Extension validation precedes the core: while the request's filename
\* is empty or its lower-cased suffix is not a supported one, no upload file has
\* been written, process_video has not been called and the uploaded content has
\* not been opened; and once the request has ended it has been answered 400.
ValidationPrecedesCore ==
    (filename = <<>> \/ lower(suffix(filename)) \notin SupportedSuffixes) =>
        /\ upload_file = "absent"
        /\ pc = "not_called"
        /\ capture = "unopened"
        /\ upc \in {"filename", "suffix", "done"}
        /\ upc = "done" => response = "400"

\* A named file with an unsupported suffix after a supported one was rejected.
UnsupportedSuffixRejected ==
    /\ filename = <<"clip", ".", "mp4", ".", "txt">>
    /\ upc = "done"
    /\ response = "400"
    /\ upload_file = "absent"

\* C17 - Upload file lifecycle: a request that has ended has left no upload
\* file; when the job failed the upload file was deleted before the error
\* response; when the job succeeded the upload file and the output file are
\* still there until the response has been sent.
UploadFileLifecycle ==
    /\ upc = "done" => upload_file = "absent"
    /\ response \in {"422", "500"} => upload_file = "absent"
    /\ (upc = "process_video" /\ returned) =>
          upload_file = "written" /\ output_file # "absent"
    /\ upc = "background" =>
          response = "200" /\ upload_file = "written" /\ output_file # "absent"

\* ---------------------------------------------------------------------------
\* Two jobs at once: process_video called directly, or from process_upload
\* ---------------------------------------------------------------------------
Jobs == {1, 2}

\* A path as directory, stem and suffix.
Path(dir, stem, sfx) == [dir |-> dir, stem |-> stem, suffix |-> sfx]

\* Input files a caller of process_video may name.
DirectPaths ==
    { Path("in1", <<"a">>, ".mp4"), Path("in2", <<"a">>, ".mp4"),
      Path("in1", <<"b">>, ".mp4") }

\* upload_path = UPLOAD_DIR / f"{uuid.uuid4()}{suffix}": one uuid per request.
upload_path(j) == Path("uploads", <<"uuid4", j>>, ".mp4")

\* output_path = output_dir / f"{input_path.stem}_clean.mp4"; every caller here
\* passes the same output_dir.
output_path(input_path) == Path("outputs", Append(input_path.stem, "_clean"), ".mp4")

JobsInit ==
    /\ jobs \in { js \in [Jobs -> [pc : {"start"},
                                   input_path : DirectPaths \cup {upload_path(j) : j \in Jobs},
                                   nframes : 1..MaxFrames,
                                   nread : {0},
                                   detection : {None},
                                   raised : {NoError},
                                   returned : {FALSE}]] :
                    /\ js[1].input_path # js[2].input_path
                    /\ \A j \in Jobs : js[j].input_path.dir = "uploads" =>
                                          js[j].input_path = upload_path(j) }
    /\ files = [p \in {jobs[j].input_path : j \in Jobs}
                      \cup {output_path(jobs[j].input_path) : j \in Jobs} |->
                  IF \E j \in Jobs : p = jobs[j].input_path THEN "written" ELSE "absent"]
    /\ pc = "jobs"
    /\ raised = NoError
    /\ returned = FALSE
    /\ capture = "unopened"
    /\ writer = "unopened"
    /\ output_file = "absent"
    /\ width = 1
    /\ height = 1
    /\ template = [h |-> 1, w |-> 1]
    /\ threshold \in Thresholds
    /\ nframes = 0
    /\ nread = 0
    /\ detection = None
    /\ updated = None
    /\ mask = [p \in {} |-> 0]
    /\ written = <<>>
    /\ minMaxLoc = None
    /\ upc = "none"
    /\ filename = <<>>
    /\ upload_file = "absent"
    /\ response = "none"

\* raise, in job j
JobRaise(j, exc) ==
    jobs' = [jobs EXCEPT ![j].pc = "done", ![j].raised = exc]

\* Lines 72-79 in job j: the input file, the template and the capture.
JobOpenCapture(j) ==
    /\ jobs[j].pc = "start"
    /\ IF files[jobs[j].input_path] = "absent"
       THEN JobRaise(j, InputMissing)
       ELSE \E outcome \in {TemplateNotFound, TemplateUnreadable,
                            CaptureNotOpened, NoError} :
               IF outcome = NoError
               THEN jobs' = [jobs EXCEPT ![j].pc = "open_writer"]
               ELSE JobRaise(j, outcome)
    /\ UNCHANGED <<vars, minMaxLoc, upc, filename, upload_file, response, files>>

\* Lines 86-96 in job j: the writer creates or truncates the file at output_path.
JobOpenWriter(j) ==
    /\ jobs[j].pc = "open_writer"
    /\ \E isOpened \in BOOLEAN :
          IF isOpened
          THEN /\ files' = [files EXCEPT ![output_path(jobs[j].input_path)] = "empty"]
               /\ jobs' = [jobs EXCEPT ![j].pc = "read", ![j].detection = None]
          ELSE /\ files' = files
               /\ JobRaise(j, WriterNotOpened)
    /\ UNCHANGED <<vars, minMaxLoc, upc, filename, upload_file, response>>

\* Lines 98-103 in job j
JobReadFrame(j) ==
    /\ jobs[j].pc = "read"
    /\ IF jobs[j].nread < jobs[j].nframes
       THEN jobs' = [jobs EXCEPT ![j].nread = @ + 1, ![j].pc = "detect"]
       ELSE jobs' = [jobs EXCEPT ![j].pc = "release"]
    /\ UNCHANGED <<vars, minMaxLoc, upc, filename, upload_file, response, files>>

\* Lines 105-117 in job j: the first-frame abort unlinks the file at output_path.
JobDetect(j) ==
    /\ jobs[j].pc = "detect"
    /\ \E peak \in matchTemplate(template, width, height) :
          LET u == _detect_watermark(peak, template, threshold)
              cur == jobs[j].detection
          IN  IF cur = None /\ u = None
              THEN /\ files' = [files EXCEPT ![output_path(jobs[j].input_path)] = "absent"]
                   /\ JobRaise(j, WatermarkNotFound)
              ELSE /\ files' = files
                   /\ jobs' = [jobs EXCEPT
                                 ![j].detection = IF cur = None \/ Adopts(u, cur)
                                                  THEN u ELSE cur,
                                 ![j].pc = "emit"]
    /\ UNCHANGED <<vars, minMaxLoc, upc, filename, upload_file, response>>

\* Lines 119-121 in job j: the frame goes to the job's own writer.
JobEmit(j) ==
    /\ jobs[j].pc = "emit"
    /\ jobs' = [jobs EXCEPT ![j].pc = "read"]
    /\ UNCHANGED <<vars, minMaxLoc, upc, filename, upload_file, response, files>>

\* Lines 123-124 in job j: the writer finishes the file at output_path.
JobRelease(j) ==
    /\ jobs[j].pc = "release"
    /\ \E f \in {"absent", "empty", "data"} :
          files' = [files EXCEPT ![output_path(jobs[j].input_path)] = f]
    /\ jobs' = [jobs EXCEPT ![j].pc = "check"]
    /\ UNCHANGED <<vars, minMaxLoc, upc, filename, upload_file, response>>

\* Lines 126-129 in job j
JobCheckOutput(j) ==
    /\ jobs[j].pc = "check"
    /\ IF OutputMissingOrEmpty(files[output_path(jobs[j].input_path)])
       THEN JobRaise(j, ReconstructionFailure)
       ELSE jobs' = [jobs EXCEPT ![j].pc = "done", ![j].returned = TRUE]
    /\ UNCHANGED <<vars, minMaxLoc, upc, filename, upload_file, response, files>>

\* process_upload after process_video, in job j: the upload file is unlinked on
\* a WatermarkRemovalError, the upload file and the output file after a response.
JobRespond(j) ==
    /\ jobs[j].pc = "done"
    /\ jobs[j].input_path.dir = "uploads"
    /\ files' = IF jobs[j].returned
                THEN [files EXCEPT ![jobs[j].input_path] = "absent",
                                   ![output_path(jobs[j].input_path)] = "absent"]
                ELSE [files EXCEPT ![jobs[j].input_path] = "absent"]
    /\ jobs' = [jobs EXCEPT ![j].pc = "responded"]
    /\ UNCHANGED <<vars, minMaxLoc, upc, filename, upload_file, response>>

JobsNext ==
    \E j \in Jobs :
        \/ JobOpenCapture(j)
        \/ JobOpenWriter(j)
        \/ JobReadFrame(j)
        \/ JobDetect(j)
        \/ JobEmit(j)
        \/ JobRelease(j)
        \/ JobCheckOutput(j)
        \/ JobRespond(j)

JobsSpec == JobsInit /\ [][JobsNext]_allvars

\* C12 - Job independence: a step of one job leaves the other job's state
\* (its tracker included), its input file and its output file as they were.
JobIndependence ==
    [][\A j \in Jobs : jobs'[j] # jobs[j] =>
          \A k \in Jobs \ {j} :
              /\ jobs'[k] = jobs[k]
              /\ files'[jobs[k].input_path] = files[jobs[k].input_path]
              /\ files'[output_path(jobs[k].input_path)]
                    = files[output_path(jobs[k].input_path)]]_allvars

====
